---- MODULE Spec2Model ----
(***************************************************************************)
(* Model of the blog's client-side highlighting: the ANTLR grammar         *)
(* definition (antlrLanguage), the engine loop that applies a grammar to a *)
(* code block's text (hljs.highlightElement), and the page script that     *)
(* registers the grammar and highlights the not yet processed blocks.      *)
(* The site's other scripts follow: copy on click, theme switching, the   *)
(* placement of the social links, and the tile swap of the match-three     *)
(* post.                                                                   *)
(*                                                                         *)
(* Text is a sequence of one-character strings; positions are 1-based.     *)
(* A regular expression is an operator Re(s, p): the position just after   *)
(* its match starting at p, or 0 when it does not match at p.              *)
(***************************************************************************)
EXTENDS Integers, Sequences, FiniteSets, TLC

VARIABLES
  input,        \* the text of the code block being highlighted
  index,        \* engine: position of the next character to scan
  stack,        \* engine: open modes below the language root, top last
  spans,        \* engine: emitted spans, in document order
  pc,           \* engine: "idle", "scan" or "done"
  modeBuffer,   \* engine: text taken in but not yet handed to the emitter
  emitted,      \* engine: the text handed to the emitter so far
  relevance,    \* engine: the relevance score accumulated so far
  weights,      \* the relevance values the grammar gives its rules
  earlier,      \* the results of the hljs.highlightElement calls before this
  readyState,   \* page: document.readyState
  scriptRun,    \* page: the script body has executed
  listening,    \* page: initializeHighlighting waits for DOMContentLoaded
  hljsLoaded,   \* page: typeof hljs !== "undefined"
  registered,   \* page: number of hljs.registerLanguage("antlr", ...) calls
  blocks,       \* page: the `pre code` elements in the document
  marked,       \* page: the blocks carrying data-highlighted
  hlCount,      \* page: per block, the number of hljs.highlightElement calls
  passes,       \* page: number of highlightUnprocessedBlocks runs so far
  thrown,       \* page: a handler ended with an uncaught ReferenceError
  unregHl,      \* page: blocks highlighted while "antlr" was not registered
  skipped,      \* page: blocks a pass has found marked and left alone
  fallback,     \* copy: which fallbackCopy the page carries
  clicks,       \* copy: number of clicks dispatched so far
  copied,       \* copy: the elements carrying the class "copied"
  timers,       \* copy: pending setTimeout callbacks, in firing order
  pending,      \* copy: clipboard promises not yet settled
  writes,       \* copy: the writeText calls made by click handlers
  setBy,        \* copy: per element, the click whose copy last added the class
  okClicks,     \* copy: the clicks whose text reached the clipboard
  linkTheme,    \* theme: per stylesheet link, its data-theme value
  linkDisabled, \* theme: per stylesheet link, its disabled property
  mqDark,       \* theme: the (prefers-color-scheme: dark) query matches
  themeListening,  \* theme: the script ran and listens for "change"
  containerLeft,   \* social: container.getBoundingClientRect().left
  innerWidth,      \* social: window.innerWidth
  sidebarDisplay,  \* social: socialSidebar.style.display
  bottomDisplay,   \* social: socialBottom.style.display
  socialListening, \* social: handleSocialPositioning has run
  grid,         \* swap: per tile, the item it holds
  frames,       \* swap: the SwapTiles calls in progress, innermost last
  scans,        \* swap: GridScan results since the user's swap began
  reversals,    \* swap: reversing SwapTiles calls since the swap began
  before,       \* swap: the grid when the user's swap began
  swapsDone     \* swap: number of user swaps begun

tokVars == <<input, index, stack, spans, pc, modeBuffer, emitted, relevance,
            weights, earlier>>
pageVars == <<readyState, scriptRun, listening, hljsLoaded, registered,
              blocks, marked, hlCount, passes, thrown, unregHl, skipped>>
copyVars == <<fallback, clicks, copied, timers, pending, writes, setBy,
             okClicks>>
themeVars == <<linkTheme, linkDisabled, mqDark, themeListening>>
socialVars == <<containerLeft, innerWidth, sidebarDisplay, bottomDisplay,
               socialListening>>
swapVars == <<grid, frames, scans, reversals, before, swapsDone>>
\* the state of the page's scripts other than the highlighting script
uiVars == <<copyVars, themeVars, socialVars, swapVars>>
vars == <<input, index, stack, spans, pc, modeBuffer, emitted, relevance,
          weights, earlier, readyState, scriptRun, listening,
          hljsLoaded, registered, blocks, marked, hlCount, passes, thrown,
          unregHl, skipped, uiVars>>

----------------------------------------------------------------------------
(* Characters and regular-expression primitives                            *)

Lower == {"a","b","c","d","e","f","g","h","i","j","k","l","m",
          "n","o","p","q","r","s","t","u","v","w","x","y","z"}
Upper == {"A","B","C","D","E","F","G","H","I","J","K","L","M",
          "N","O","P","Q","R","S","T","U","V","W","X","Y","Z"}
Digit == {"0","1","2","3","4","5","6","7","8","9"}
WordChar == Lower \cup Upper \cup Digit \cup {"_"}
IdentStart == Lower \cup Upper \cup {"_"}
Space == {" ", "\n", "\t", "\r"}
LineTerminator == {"\n", "\r"}

Min(S) == CHOOSE x \in S : \A y \in S : x <= y

\* the character at p, "" outside the text
Ch(s, p) == IF p >= 1 /\ p <= Len(s) THEN s[p] ELSE ""

\* \b
WordBoundary(s, p) == (Ch(s, p - 1) \in WordChar) # (Ch(s, p) \in WordChar)

\* ^ and $ under the engine's multiline flag
LineStart(s, p) == p = 1 \/ Ch(s, p - 1) \in LineTerminator
LineEnd(s, p) == p = Len(s) + 1 \/ Ch(s, p) \in LineTerminator

\* [set]* greedy from p: the first position whose character is not in set
RunEnd(s, p, set) ==
  CHOOSE q \in p..(Len(s) + 1) :
    /\ \A i \in p..(q - 1) : s[i] \in set
    /\ Ch(s, q) \notin set

\* a literal word w at p
Lit(s, p, w) ==
  IF \A i \in 1..Len(w) : Ch(s, p + i - 1) = w[i] THEN p + Len(w) ELSE 0

\* one character of set at p
OneOf(s, p, set) == IF Ch(s, p) \in set THEN p + 1 ELSE 0

----------------------------------------------------------------------------
(* The patterns of antlrLanguage                                           *)

W_grammar == <<"g","r","a","m","m","a","r">>
W_lexer == <<"l","e","x","e","r">>
W_parser == <<"p","a","r","s","e","r">>
W_options == <<"o","p","t","i","o","n","s">>

\* /^[a-z][a-zA-Z0-9_]*/
RULE_NAME_lowerOnly(s, p) ==
  IF LineStart(s, p) /\ Ch(s, p) \in Lower
  THEN RunEnd(s, p + 1, Lower \cup Digit \cup {"_"}) ELSE 0
RULE_NAME_begin(s, p) ==
  IF LineStart(s, p) /\ Ch(s, p) \in Lower
  THEN RunEnd(s, p + 1, WordChar) ELSE 0

\* /[A-Z][A-Z0-9_]*/
TOKEN_NAME_begin(s, p) ==
  IF Ch(s, p) \in Upper
  THEN RunEnd(s, p + 1, Upper \cup Digit \cup {"_"}) ELSE 0

\* /'/ and /"/, each both the begin and the end of its variant
STRING_single(s, p) == OneOf(s, p, {"'"})
STRING_double(s, p) == OneOf(s, p, {"\""})

\* hljs.BACKSLASH_ESCAPE: /\\[\s\S]/
BACKSLASH_ESCAPE_never(s, p) == 0
BACKSLASH_ESCAPE_begin(s, p) ==
  IF Ch(s, p) = "\\" /\ p + 1 <= Len(s) THEN p + 2 ELSE 0

\* /\{/ and /\}/
LBRACE(s, p) == OneOf(s, p, {"{"})
RBRACE(s, p) == OneOf(s, p, {"}"})

\* hljs.C_LINE_COMMENT_MODE: "//" to /$/
LINE_COMMENT_begin(s, p) == Lit(s, p, <<"/", "/">>)
LINE_COMMENT_end(s, p) == IF LineEnd(s, p) THEN p ELSE 0

\* hljs.C_BLOCK_COMMENT_MODE: "/\*" to "\*/"
BLOCK_COMMENT_begin(s, p) == Lit(s, p, <<"/", "*">>)
BLOCK_COMMENT_end(s, p) == Lit(s, p, <<"*", "/">>)

\* /options\s*\{/
OPTION_begin(s, p) ==
  LET w == Lit(s, p, W_options)
  IN IF w = 0 THEN 0 ELSE OneOf(s, RunEnd(s, w, Space), {"{"})

\* /\b[a-zA-Z_][a-zA-Z0-9_]*\s*=/
OPTION_key(s, p) ==
  IF WordBoundary(s, p) /\ Ch(s, p) \in IdentStart
  THEN OneOf(s, RunEnd(s, RunEnd(s, p + 1, WordChar), Space), {"="})
  ELSE 0

\* /@[a-zA-Z_][a-zA-Z0-9_]*/
HEADER_begin(s, p) ==
  IF Ch(s, p) = "@" /\ Ch(s, p + 1) \in IdentStart
  THEN RunEnd(s, p + 2, WordChar) ELSE 0

\* /\b(grammar|lexer\s+grammar|parser\s+grammar)\b/
GRAMMAR_TYPE_begin(s, p) ==
  LET after(w) == LET e == Lit(s, p, w)
                  IN IF e # 0 /\ RunEnd(s, e, Space) > e
                     THEN Lit(s, RunEnd(s, e, Space), W_grammar) ELSE 0
      ok(e) == e # 0 /\ WordBoundary(s, e)
      a1 == Lit(s, p, W_grammar)
      a2 == after(W_lexer)
      a3 == after(W_parser)
  IN IF ~WordBoundary(s, p) THEN 0
     ELSE IF ok(a1) THEN a1
     ELSE IF ok(a2) THEN a2
     ELSE IF ok(a3) THEN a3
     ELSE 0

\* KEYWORDS.$pattern is /[a-zA-Z_][a-zA-Z0-9_]*/; KEYWORDS.keyword lists these
KeywordList == {
  <<"g","r","a","m","m","a","r">>,
  <<"l","e","x","e","r">>,
  <<"p","a","r","s","e","r">>,
  <<"f","r","a","g","m","e","n","t">>,
  <<"i","m","p","o","r","t">>,
  <<"r","e","t","u","r","n","s">>,
  <<"l","o","c","a","l","s">>,
  <<"t","h","r","o","w","s">>,
  <<"c","a","t","c","h">>,
  <<"f","i","n","a","l","l","y">>,
  <<"m","o","d","e">>,
  <<"p","u","s","h","M","o","d","e">>,
  <<"p","o","p","M","o","d","e">>,
  <<"s","k","i","p">>,
  <<"m","o","r","e">>,
  <<"t","y","p","e">>,
  <<"c","h","a","n","n","e","l">>}

\* /[|*+?~]/
OPERATORS_begin(s, p) == OneOf(s, p, {"|", "*", "+", "?", "~"})

\* /[;:()[\]]/
SPECIAL_CHARS_begin(s, p) == OneOf(s, p, {";", ":", "(", ")", "[", "]"})

\* /\[/ and /\]/
RANGE_begin(s, p) == OneOf(s, p, {"["})
RANGE_end(s, p) == OneOf(s, p, {"]"})

\* /\\./ : a backslash and one character that is no line terminator
RANGE_escape_never(s, p) == 0
RANGE_escape(s, p) ==
  IF Ch(s, p) = "\\" /\ p + 1 <= Len(s) /\ Ch(s, p + 1) \notin LineTerminator
  THEN p + 2 ELSE 0

\* /-/
RANGE_hyphen(s, p) == OneOf(s, p, {"-"})

\* /\./
DOT_begin(s, p) == OneOf(s, p, {"."})

\* the three trailing anonymous rules: /:/, /\|/, /;/
COLON_begin(s, p) == OneOf(s, p, {":"})
PIPE_begin(s, p) == OneOf(s, p, {"|"})
SEMI_begin(s, p) == OneOf(s, p, {";"})

\* a mode that declares no end gets the engine's default /\B|\b/, which
\* matches with zero width at every position
DEFAULT_end(s, p) == p

Match(re, s, p) ==
  CASE re = "RULE_NAME" -> RULE_NAME_begin(s, p)
    [] re = "TOKEN_NAME" -> TOKEN_NAME_begin(s, p)
    [] re = "SQUOTE" -> STRING_single(s, p)
    [] re = "DQUOTE" -> STRING_double(s, p)
    [] re = "BACKSLASH_ESCAPE" -> BACKSLASH_ESCAPE_begin(s, p)
    [] re = "LBRACE" -> LBRACE(s, p)
    [] re = "RBRACE" -> RBRACE(s, p)
    [] re = "LINE_COMMENT" -> LINE_COMMENT_begin(s, p)
    [] re = "EOL" -> LINE_COMMENT_end(s, p)
    [] re = "BLOCK_COMMENT" -> BLOCK_COMMENT_begin(s, p)
    [] re = "BLOCK_COMMENT_END" -> BLOCK_COMMENT_end(s, p)
    [] re = "OPTION" -> OPTION_begin(s, p)
    [] re = "OPTION_KEY" -> OPTION_key(s, p)
    [] re = "HEADER" -> HEADER_begin(s, p)
    [] re = "GRAMMAR_TYPE" -> GRAMMAR_TYPE_begin(s, p)
    [] re = "OPERATORS" -> OPERATORS_begin(s, p)
    [] re = "SPECIAL_CHARS" -> SPECIAL_CHARS_begin(s, p)
    [] re = "LBRACKET" -> RANGE_begin(s, p)
    [] re = "RBRACKET" -> RANGE_end(s, p)
    [] re = "RANGE_ESCAPE" -> RANGE_escape(s, p)
    [] re = "HYPHEN" -> RANGE_hyphen(s, p)
    [] re = "DOT" -> DOT_begin(s, p)
    [] re = "COLON" -> COLON_begin(s, p)
    [] re = "PIPE" -> PIPE_begin(s, p)
    [] re = "SEMI" -> SEMI_begin(s, p)
    [] re = "DEFAULT" -> DEFAULT_end(s, p)
    [] OTHER -> 0

----------------------------------------------------------------------------
(* The modes of antlrLanguage: className, begin, end, contains, returnEnd  *)

Rule(cls, begin, end, contains, returnEnd) ==
  [cls |-> cls, begin |-> begin, end |-> end, contains |-> contains,
   returnEnd |-> returnEnd]

RULE_NAME == Rule("title.function", "RULE_NAME", "DEFAULT", <<>>, FALSE)
TOKEN_NAME == Rule("title.class", "TOKEN_NAME", "DEFAULT", <<>>, FALSE)
BACKSLASH_ESCAPE == Rule("", "BACKSLASH_ESCAPE", "DEFAULT", <<>>, FALSE)
\* STRING.variants expand, in place, to one mode per variant
STRING_1_nesting ==
  Rule("string", "SQUOTE", "SQUOTE", <<"BACKSLASH_ESCAPE", "STRING_2">>, FALSE)
STRING_1 == Rule("string", "SQUOTE", "SQUOTE", <<"BACKSLASH_ESCAPE">>, FALSE)
STRING_2 == Rule("string", "DQUOTE", "DQUOTE", <<"BACKSLASH_ESCAPE">>, FALSE)
\* the library's comment modes also contain doctag and prose sub-modes; these
\* match only inside a comment, never across its end, and emit no class of
\* this grammar, so a comment's extent is its begin and end alone
C_LINE_COMMENT_MODE == Rule("comment", "LINE_COMMENT", "EOL", <<>>, FALSE)
C_BLOCK_COMMENT_MODE ==
  Rule("comment", "BLOCK_COMMENT", "BLOCK_COMMENT_END", <<>>, FALSE)
\* the anonymous mode inside ACTION_CODE; its "self" is this mode itself
ACTION_NESTED_flat == Rule("", "LBRACE", "RBRACE", <<>>, FALSE)
ACTION_NESTED == Rule("", "LBRACE", "RBRACE", <<"ACTION_NESTED">>, FALSE)
ACTION_CODE ==
  Rule("section", "LBRACE", "RBRACE",
       <<"ACTION_NESTED", "C_LINE_COMMENT_MODE", "C_BLOCK_COMMENT_MODE",
         "STRING_1", "STRING_2">>, FALSE)
OPTION_KEY == Rule("meta-keyword", "OPTION_KEY", "DEFAULT", <<>>, FALSE)
OPTION ==
  Rule("meta", "OPTION", "RBRACE",
       <<"OPTION_KEY", "STRING_1", "STRING_2", "C_LINE_COMMENT_MODE",
         "C_BLOCK_COMMENT_MODE">>, FALSE)
HEADER_KEY == Rule("meta-keyword", "HEADER", "DEFAULT", <<>>, FALSE)
\* HEADER without returnEnd
HEADER_consumeEnd == Rule("meta", "HEADER", "LBRACE", <<"HEADER_KEY">>, FALSE)
HEADER == Rule("meta", "HEADER", "LBRACE", <<"HEADER_KEY">>, TRUE)
GRAMMAR_TYPE == Rule("keyword", "GRAMMAR_TYPE", "DEFAULT", <<>>, FALSE)
OPERATORS == Rule("operator", "OPERATORS", "DEFAULT", <<>>, FALSE)
SPECIAL_CHARS == Rule("punctuation", "SPECIAL_CHARS", "DEFAULT", <<>>, FALSE)
RANGE_ESCAPE == Rule("", "RANGE_ESCAPE", "DEFAULT", <<>>, FALSE)
RANGE_HYPHEN == Rule("operator", "HYPHEN", "DEFAULT", <<>>, FALSE)
RANGE ==
  Rule("string", "LBRACKET", "RBRACKET", <<"RANGE_ESCAPE", "RANGE_HYPHEN">>,
       FALSE)
DOT == Rule("built_in", "DOT", "DEFAULT", <<>>, FALSE)
COLON == Rule("punctuation", "COLON", "DEFAULT", <<>>, FALSE)
PIPE == Rule("operator", "PIPE", "DEFAULT", <<>>, FALSE)
SEMI == Rule("punctuation", "SEMI", "DEFAULT", <<>>, FALSE)

\* the language root: the returned object's contains, in declared order
antlrLanguage ==
  Rule("", "", "",
       <<"C_LINE_COMMENT_MODE", "C_BLOCK_COMMENT_MODE", "GRAMMAR_TYPE",
         "HEADER", "OPTION", "ACTION_CODE", "RULE_NAME", "TOKEN_NAME",
         "STRING_1", "STRING_2", "RANGE", "OPERATORS", "SPECIAL_CHARS",
         "DOT", "COLON", "PIPE", "SEMI">>, FALSE)

ModeOf(m) ==
  CASE m = "ROOT" -> antlrLanguage
    [] m = "RULE_NAME" -> RULE_NAME
    [] m = "TOKEN_NAME" -> TOKEN_NAME
    [] m = "BACKSLASH_ESCAPE" -> BACKSLASH_ESCAPE
    [] m = "STRING_1" -> STRING_1
    [] m = "STRING_2" -> STRING_2
    [] m = "C_LINE_COMMENT_MODE" -> C_LINE_COMMENT_MODE
    [] m = "C_BLOCK_COMMENT_MODE" -> C_BLOCK_COMMENT_MODE
    [] m = "ACTION_NESTED" -> ACTION_NESTED
    [] m = "ACTION_CODE" -> ACTION_CODE
    [] m = "OPTION_KEY" -> OPTION_KEY
    [] m = "OPTION" -> OPTION
    [] m = "HEADER_KEY" -> HEADER_KEY
    [] m = "HEADER" -> HEADER
    [] m = "GRAMMAR_TYPE" -> GRAMMAR_TYPE
    [] m = "OPERATORS" -> OPERATORS
    [] m = "SPECIAL_CHARS" -> SPECIAL_CHARS
    [] m = "RANGE_ESCAPE" -> RANGE_ESCAPE
    [] m = "RANGE_HYPHEN" -> RANGE_HYPHEN
    [] m = "RANGE" -> RANGE
    [] m = "DOT" -> DOT
    [] m = "COLON" -> COLON
    [] m = "PIPE" -> PIPE
    [] m = "SEMI" -> SEMI

\* relevance: the values the grammar gives RULE_NAME and TOKEN_NAME
RULE_NAME_relevance == 10
TOKEN_NAME_relevance == 8
CodeWeights ==
  [RULE_NAME |-> RULE_NAME_relevance, TOKEN_NAME |-> TOKEN_NAME_relevance]

\* the relevance of mode m: the grammar's value where it gives one,
\* hljs.BACKSLASH_ESCAPE's own 0, and the engine's default of 1 otherwise
Relevance(m) ==
  CASE m = "RULE_NAME" -> weights.RULE_NAME
    [] m = "TOKEN_NAME" -> weights.TOKEN_NAME
    [] m = "BACKSLASH_ESCAPE" -> 0
    [] OTHER -> 1

----------------------------------------------------------------------------
(* The engine loop of hljs.highlightElement over one block's text          *)

\* the alternatives of mode m's matcher: the begin of each contained mode in
\* declared order, then m's own end
Alts(m) ==
  LET c == ModeOf(m).contains
  IN [i \in 1..Len(c) |->
        [kind |-> "begin", mode |-> c[i], re |-> ModeOf(c[i]).begin]]
     \o (IF m = "ROOT" THEN <<>>
         ELSE <<[kind |-> "end", mode |-> m, re |-> ModeOf(m).end]>>)

\* the alternatives that match at p
AltsAt(alts, s, p) == {i \in 1..Len(alts) : Match(alts[i].re, s, p) # 0}

\* regular-expression alternation: of the alternatives that match at p the
\* one written first is taken (0: none matches at p)
RECURSIVE FirstFrom(_, _, _, _)
FirstFrom(alts, s, p, i) ==
  IF i > Len(alts) THEN 0
  ELSE IF Match(alts[i].re, s, p) # 0 THEN i
  ELSE FirstFrom(alts, s, p, i + 1)

LastAlt(alts, s, p) ==
  LET A == AltsAt(alts, s, p)
  IN IF A = {} THEN 0 ELSE CHOOSE i \in A : \A j \in A : j <= i
\* of the alternatives that match at p, one of the greatest relevance
HeaviestAlt(alts, s, p) ==
  LET A == AltsAt(alts, s, p)
      W(i) == IF alts[i].kind = "begin" THEN Relevance(alts[i].mode) ELSE 0
  IN IF A = {} THEN 0
     ELSE CHOOSE i \in A : \A j \in A : W(j) < W(i) \/ (W(j) = W(i) /\ i <= j)
FirstAlt(alts, s, p) == FirstFrom(alts, s, p, 1)

\* matcher.exec with lastIndex = p: the leftmost position at or after p
\* where an alternative matches (0: no match in the rest of the text)
RECURSIVE Scan(_, _, _)
Scan(alts, s, p) ==
  IF p > Len(s) + 1 THEN 0
  ELSE IF FirstAlt(alts, s, p) # 0 THEN p
  ELSE Scan(alts, s, p + 1)

\* processKeywords over the buffer s[a..b-1]: each match of KEYWORDS.$pattern
\* in the buffer that is a listed keyword becomes a keyword span
RECURSIVE KeywordSpans(_, _, _)
KeywordSpans(s, a, b) ==
  IF a >= b THEN <<>>
  ELSE IF s[a] \notin IdentStart THEN KeywordSpans(s, a + 1, b)
  ELSE LET r == RunEnd(s, a + 1, WordChar)
           e == IF r < b THEN r ELSE b
       IN (IF SubSeq(s, a, e - 1) \in KeywordList
           THEN <<[cls |-> "keyword", rule |-> "KEYWORDS", from |-> a,
                   to |-> e, depth |-> 0]>>
           ELSE <<>>) \o KeywordSpans(s, e, b)

\* processBuffer: only the language root declares keywords
ProcessBuffer(m, s, a, b) == IF m = "ROOT" THEN KeywordSpans(s, a, b) ELSE <<>>

TopMode == IF stack = <<>> THEN "ROOT" ELSE stack[Len(stack)].mode

\* Every begin pattern of this grammar consumes at least one character, so
\* the engine's guard against a zero-width begin followed by a zero-width
\* end never applies and is not modelled.

\* doEndMatch: the end lexeme s[p..e-1] joins the ending mode's buffer unless
\* the mode has returnEnd, which leaves the lexeme to be scanned again
EndLexeme_always(m, s, p, e) == SubSeq(s, p, e - 1)
EndLexeme(m, s, p, e) ==
  IF ModeOf(m).returnEnd THEN <<>> ELSE SubSeq(s, p, e - 1)

\* the end of the text closes every span still open
CloseAll_none(all, e) == all
CloseAll(all, e) ==
  [i \in 1..Len(all) |->
     IF all[i].to = 0 THEN [all[i] EXCEPT !.to = e] ELSE all[i]]

\* the modes a call starts in: the language root alone, whatever modes the
\* call before it left open
InitialTop_continuation(st) ==
  [i \in 1..Len(st) |-> [st[i] EXCEPT !.span = 0]]
InitialTop(st) == <<>>

\* doBeginMatch: flush the buffer before the lexeme, open the new mode's span
\* and make it the top mode; the lexeme starts the new mode's buffer and
\* scanning resumes after it. Each keyword found in the flushed buffer adds
\* its relevance of 1 (the engine stops counting a word after 7 hits, more
\* than a text of these sizes holds).
BeginMatch ==
  /\ pc = "scan"
  /\ \E alts \in {Alts(TopMode)} :
     \E p \in {Scan(alts, input, index)} :
       /\ p # 0
       /\ \E a \in {alts[FirstAlt(alts, input, p)]} :
            /\ a.kind = "begin"
            /\ \E kw \in {ProcessBuffer(TopMode, input, index, p)} :
               \E cls \in {ModeOf(a.mode).cls} :
                 /\ spans' = spans \o kw \o
                      (IF cls = "" THEN <<>>
                       ELSE <<[cls |-> cls, rule |-> a.mode, from |-> p,
                               to |-> 0, depth |-> Len(stack)]>>)
                 /\ stack' = Append(stack,
                      [mode |-> a.mode,
                       span |-> IF cls = "" THEN 0
                                ELSE Len(spans) + Len(kw) + 1])
                 /\ relevance' = relevance + Len(kw)
            /\ \E e \in {Match(a.re, input, p)} :
                 /\ index' = e
                 /\ modeBuffer' = SubSeq(input, p, e - 1)
       /\ emitted' = emitted \o modeBuffer \o SubSeq(input, index, p - 1)
  /\ UNCHANGED <<input, pc, weights, earlier>>
  /\ UNCHANGED pageVars
  /\ UNCHANGED uiVars

\* doEndMatch: the top mode's end matched; its buffer is flushed, its span
\* closes after the lexeme (before it under returnEnd, which leaves the lexeme
\* to the parent) and its relevance is added to the score
EndMatch ==
  /\ pc = "scan"
  /\ stack # <<>>
  /\ \E alts \in {Alts(TopMode)} :
     \E p \in {Scan(alts, input, index)} :
       /\ p # 0
       /\ \E a \in {alts[FirstAlt(alts, input, p)]} :
            /\ a.kind = "end"
            /\ \E e \in {IF ModeOf(TopMode).returnEnd THEN p
                         ELSE Match(a.re, input, p)} :
                 /\ spans' = IF stack[Len(stack)].span = 0 THEN spans
                             ELSE [spans EXCEPT ![stack[Len(stack)].span].to = e]
                 /\ index' = e
            /\ emitted' = emitted \o modeBuffer \o SubSeq(input, index, p - 1)
                            \o EndLexeme(TopMode, input, p, Match(a.re, input, p))
  /\ modeBuffer' = <<>>
  /\ relevance' = relevance + Relevance(TopMode)
  /\ stack' = SubSeq(stack, 1, Len(stack) - 1)
  /\ UNCHANGED <<input, pc, weights, earlier>>
  /\ UNCHANGED pageVars
  /\ UNCHANGED uiVars

\* no further match: the rest of the text is flushed and every span still
\* open is closed at the end of the text; the modes still open stay the
\* result's top
Finish ==
  /\ pc = "scan"
  /\ \E alts \in {Alts(TopMode)} : Scan(alts, input, index) = 0
  /\ \E kw \in {ProcessBuffer(TopMode, input, index, Len(input) + 1)} :
       /\ spans' = CloseAll(spans \o kw, Len(input) + 1)
       /\ relevance' = relevance + Len(kw)
  /\ emitted' = emitted \o modeBuffer \o SubSeq(input, index, Len(input))
  /\ modeBuffer' = <<>>
  /\ index' = Len(input) + 1
  /\ pc' = "done"
  /\ UNCHANGED <<input, stack, weights, earlier>>
  /\ UNCHANGED pageVars
  /\ UNCHANGED uiVars

----------------------------------------------------------------------------
(* The texts the engine is run on                                          *)

MaxBraceFrags == 6
MaxStringFrags == 6
MaxRangeFrags == 5
MaxNameFrags == 3
MaxHiddenFrags == 5
MaxKeywordFrags == 3
MaxHeaderFrags == 5
MaxMixFrags == 4
MaxRelevanceFrags == 3
MaxEarlier == 2

RECURSIVE Concat(_)
Concat(q) == IF q = <<>> THEN <<>> ELSE Head(q) \o Concat(Tail(q))

\* every concatenation of at most n fragments of F
InputsOver(F, n) == {Concat(q) : q \in UNION {[1..k -> F] : k \in 0..n}}

BraceFrags == {<<"{">>, <<"}">>, <<"a">>, <<"'">>}
StringFrags == {<<"'">>, <<"\"">>, <<"\\">>, <<"a">>}
RangeFrags == {<<"[">>, <<"]">>, <<"-">>, <<"\\">>, <<"a">>}
NameFrags == {<<"a">>, <<"B">>, <<" ">>, <<"\n">>, <<"[">>, <<";">>, <<"{">>,
              W_grammar, W_options}

W_fragment == <<"f","r","a","g","m","e","n","t">>
W_mode == <<"m","o","d","e">>
W_popMode == <<"p","o","p","M","o","d","e">>

\* braces hidden in a string or in a block comment
HiddenFrags == {<<"{">>, <<"}">>, <<"'", "}", "'">>, <<"/", "*", "}", "*", "/">>,
                <<"a">>}
KeywordFrags == {W_fragment, W_mode, W_popMode, <<"a">>, <<" ">>, <<"\n">>}
HeaderFrags == {<<"@", "a">>, <<"{">>, <<"}">>, <<"a">>, <<" ">>}
MixFrags == {<<"{">>, <<"}">>, <<"'">>, <<"\\">>, <<"@", "a">>, <<"B">>,
             <<"\n">>}
RelevanceFrags == {<<"a">>, <<"B">>, <<"\n">>, W_grammar}

\* the texts of the blocks of one page: three that end inside an open action
\* block, string and comment, and two that would be read differently there
BlockTexts == {<<"{", "a">>, <<"'", "a">>, <<"/", "*", "a">>, <<"B", ";">>,
               <<"a", "}", "'", "*", "/", "B">>}
UnterminatedTexts == {<<"{", "a">>, <<"'", "a">>, <<"/", "*", "a">>}

\* grammars that differ from antlrLanguage in relevance values alone
WeightChoices ==
  {CodeWeights,
   [RULE_NAME |-> 0, TOKEN_NAME |-> 0],
   [RULE_NAME |-> TOKEN_NAME_relevance, TOKEN_NAME |-> RULE_NAME_relevance]}

\* grammar Foo; fragment X: 'a'..'z';
Scenario == <<"g","r","a","m","m","a","r"," ","F","o","o",";"," ","f","r","a","g","m","e","n","t"," ","X",":"," ","'","a","'",".",".","'","z","'",";">>

----------------------------------------------------------------------------
(* The page script                                                         *)

MaxPasses == 3
Blocks == {"b1", "b2", "b3"}

\* the elements that carry a click handler, and a span inside the code
Elements == {"pre", "code", "span", "inlineCode", "barePre"}
Links == {"l1", "l2", "l3"}
Tiles == {"t1", "t2", "t3"}

CopyIdle ==
  /\ fallback = "execCommand"
  /\ clicks = 0
  /\ copied = {}
  /\ timers = <<>>
  /\ pending = {}
  /\ writes = <<>>
  /\ setBy = [e \in Elements |-> 0]
  /\ okClicks = {}

ThemeIdle ==
  /\ linkTheme = [l \in Links |-> "dark"]
  /\ linkDisabled = [l \in Links |-> FALSE]
  /\ mqDark = FALSE
  /\ themeListening = FALSE

SocialIdle ==
  /\ containerLeft = 0
  /\ innerWidth = 0
  /\ sidebarDisplay = ""
  /\ bottomDisplay = ""
  /\ socialListening = FALSE

SwapIdle ==
  /\ grid = [t \in Tiles |-> t]
  /\ frames = <<>>
  /\ scans = <<>>
  /\ reversals = 0
  /\ before = [t \in Tiles |-> t]
  /\ swapsDone = 0

\* the highlighting script before it runs
HighlightIdle ==
  /\ readyState = "loading"
  /\ scriptRun = FALSE
  /\ listening = FALSE
  /\ hljsLoaded = FALSE
  /\ registered = 0
  /\ blocks = {}
  /\ marked = {}
  /\ hlCount = [b \in Blocks |-> 0]
  /\ passes = 0
  /\ thrown = FALSE
  /\ unregHl = {}
  /\ skipped = {}

PageIdle ==
  /\ HighlightIdle
  /\ CopyIdle
  /\ ThemeIdle
  /\ SocialIdle
  /\ SwapIdle

\* the engine at rest, while the page script is what is observed
TokIdle ==
  /\ input = <<>>
  /\ index = 1
  /\ stack = <<>>
  /\ spans = <<>>
  /\ pc = "idle"
  /\ modeBuffer = <<>>
  /\ emitted = <<>>
  /\ relevance = 0
  /\ weights = CodeWeights
  /\ earlier = <<>>

\* the engine started on text s
TokStart(s) ==
  /\ input = s
  /\ index = 1
  /\ stack = <<>>
  /\ spans = <<>>
  /\ pc = "scan"
  /\ modeBuffer = <<>>
  /\ emitted = <<>>
  /\ relevance = 0
  /\ weights = CodeWeights
  /\ earlier = <<>>
  /\ PageIdle

TokNext == BeginMatch \/ EndMatch \/ Finish

\* action blocks
BraceSpec ==
  (\E s \in InputsOver(BraceFrags, MaxBraceFrags) : TokStart(s))
    /\ [][TokNext]_vars
\* string literals
StringSpec ==
  (\E s \in InputsOver(StringFrags, MaxStringFrags) : TokStart(s))
    /\ [][TokNext]_vars
\* character classes
RangeSpec ==
  (\E s \in InputsOver(RangeFrags, MaxRangeFrags) : TokStart(s))
    /\ [][TokNext]_vars
\* identifiers, keywords and punctuation, and the end-to-end scenario
NameSpec ==
  (\E s \in InputsOver(NameFrags, MaxNameFrags) \cup {Scenario} : TokStart(s))
    /\ [][TokNext]_vars
\* action blocks that hold strings and comments
HiddenSpec ==
  (\E s \in InputsOver(HiddenFrags, MaxHiddenFrags) : TokStart(s))
    /\ [][TokNext]_vars
\* keywords
KeywordSpec ==
  (\E s \in InputsOver(KeywordFrags, MaxKeywordFrags) : TokStart(s))
    /\ [][TokNext]_vars
\* header tags
HeaderSpec ==
  (\E s \in InputsOver(HeaderFrags, MaxHeaderFrags) : TokStart(s))
    /\ [][TokNext]_vars
\* texts of every kind; the engine's loop runs until the text is used up
MixSpec ==
  (\E s \in InputsOver(MixFrags, MaxMixFrags) : TokStart(s))
    /\ [][TokNext]_vars /\ WF_vars(TokNext)

\* a further hljs.highlightElement call, on text s under a grammar with
\* relevance values w: the call before it is over and its result is kept;
\* the new call has its own emitter, buffer and score
HighlightElement(s, w) ==
  /\ pc = "done"
  /\ Len(earlier) < MaxEarlier
  /\ earlier' = Append(earlier,
                  [input |-> input, weights |-> weights, spans |-> spans,
                   emitted |-> emitted, relevance |-> relevance])
  /\ input' = s
  /\ weights' = w
  /\ index' = 1
  /\ stack' = InitialTop(stack)
  /\ spans' = <<>>
  /\ modeBuffer' = <<>>
  /\ emitted' = <<>>
  /\ relevance' = 0
  /\ pc' = "scan"
  /\ UNCHANGED pageVars
  /\ UNCHANGED uiVars

\* highlightUnprocessedBlocks passing one block after another to the engine
BlocksSpec ==
  (\E s \in BlockTexts : TokStart(s))
    /\ [][TokNext \/ \E s \in BlockTexts : HighlightElement(s, weights)]_vars
\* one text highlighted again under grammars of other relevance values
RelevanceSpec ==
  (\E s \in InputsOver(RelevanceFrags, MaxRelevanceFrags) : TokStart(s))
    /\ [][TokNext \/ \E w \in WeightChoices : HighlightElement(input, w)]_vars

----------------------------------------------------------------------------
(* The page script's handlers                                              *)

\* querySelectorAll("pre code:not([data-highlighted])")
Unprocessed_all == blocks
Unprocessed == blocks \ marked

\* highlightUnprocessedBlocks, run while registerLanguage has been called reg
\* times: each unprocessed block is passed to hljs.highlightElement and then
\* marked. With hljs undefined the first element's callback throws a
\* ReferenceError and nothing is marked.
HighlightUnprocessedBlocks(reg) ==
  /\ passes' = passes + 1
  /\ IF Unprocessed = {} THEN
       /\ skipped' = skipped \cup marked
       /\ UNCHANGED <<marked, hlCount, thrown, unregHl>>
     ELSE IF ~hljsLoaded THEN
       /\ thrown' = TRUE
       /\ UNCHANGED <<marked, hlCount, unregHl, skipped>>
     ELSE
       /\ hlCount' = [b \in Blocks |->
                       IF b \in Unprocessed THEN hlCount[b] + 1 ELSE hlCount[b]]
       /\ marked' = marked \cup Unprocessed
       /\ unregHl' = IF reg = 0 THEN unregHl \cup Unprocessed ELSE unregHl
       /\ skipped' = skipped \cup marked
       /\ UNCHANGED thrown

\* initializeHighlighting without its call of highlightUnprocessedBlocks
InitializeHighlighting_registerOnly ==
  /\ registered' = IF hljsLoaded THEN registered + 1 ELSE registered
  /\ UNCHANGED <<marked, hlCount, passes, thrown, unregHl, skipped>>

\* initializeHighlighting
InitializeHighlighting ==
  IF hljsLoaded THEN
    /\ registered' = registered + 1
    /\ HighlightUnprocessedBlocks(registered + 1)
  ELSE
    UNCHANGED <<registered, marked, hlCount, passes, thrown, unregHl, skipped>>

\* the script body: it publishes window.refreshHighlighting, then initializes
\* at once or on DOMContentLoaded, by document.readyState
ScriptRun ==
  /\ ~scriptRun
  /\ scriptRun' = TRUE
  /\ IF readyState = "loading" THEN
       /\ listening' = TRUE
       /\ UNCHANGED <<registered, marked, hlCount, passes, thrown, unregHl,
                      skipped>>
     ELSE
       /\ InitializeHighlighting
       /\ UNCHANGED listening
  /\ UNCHANGED <<readyState, hljsLoaded, blocks>>
  /\ UNCHANGED tokVars
  /\ UNCHANGED uiVars

\* the document finishes parsing: DOMContentLoaded runs the listener, if any
DOMContentLoaded ==
  /\ readyState = "loading"
  /\ readyState' = "interactive"
  /\ listening' = FALSE
  /\ IF listening THEN InitializeHighlighting
     ELSE UNCHANGED <<registered, marked, hlCount, passes, thrown, unregHl,
                      skipped>>
  /\ UNCHANGED <<scriptRun, hljsLoaded, blocks>>
  /\ UNCHANGED tokVars
  /\ UNCHANGED uiVars

\* the load event
Load ==
  /\ readyState = "interactive"
  /\ readyState' = "complete"
  /\ UNCHANGED <<scriptRun, listening, hljsLoaded, registered, blocks, marked,
                 hlCount, passes, thrown, unregHl, skipped>>
  /\ UNCHANGED tokVars
  /\ UNCHANGED uiVars

\* the highlighting library's own script executes
HljsLoad ==
  /\ ~hljsLoaded
  /\ hljsLoaded' = TRUE
  /\ UNCHANGED <<readyState, scriptRun, listening, registered, blocks, marked,
                 hlCount, passes, thrown, unregHl, skipped>>
  /\ UNCHANGED tokVars
  /\ UNCHANGED uiVars

\* a `pre code` element enters the document (parsing, or inserted content)
AddBlock(b) ==
  /\ b \notin blocks
  /\ blocks' = blocks \cup {b}
  /\ UNCHANGED <<readyState, scriptRun, listening, hljsLoaded, registered,
                 marked, hlCount, passes, thrown, unregHl, skipped>>
  /\ UNCHANGED tokVars
  /\ UNCHANGED uiVars

\* window.refreshHighlighting bound to initializeHighlighting instead
RefreshHighlighting_init ==
  /\ scriptRun
  /\ passes < MaxPasses
  /\ InitializeHighlighting
  /\ UNCHANGED <<readyState, scriptRun, listening, hljsLoaded, blocks>>
  /\ UNCHANGED tokVars
  /\ UNCHANGED uiVars

\* a caller invokes window.refreshHighlighting
RefreshHighlighting ==
  /\ scriptRun
  /\ passes < MaxPasses
  /\ HighlightUnprocessedBlocks(registered)
  /\ UNCHANGED <<readyState, scriptRun, listening, hljsLoaded, registered,
                 blocks>>
  /\ UNCHANGED tokVars
  /\ UNCHANGED uiVars

Init == TokIdle /\ PageIdle

Next ==
  \/ ScriptRun
  \/ DOMContentLoaded
  \/ Load
  \/ HljsLoad
  \/ \E b \in Blocks : AddBlock(b)
  \/ RefreshHighlighting

Spec == Init /\ [][Next]_vars

(***************************************************************************)
(* Copy on click: initializeCodeCopy and fallbackCopy                      *)
(***************************************************************************)

MaxClicks == 3

\* the two fallbackCopy bodies the site carries
Fallbacks == {"execCommand", "writeText"}

TagName(e) ==
  CASE e \in {"pre", "barePre"} -> "PRE"
    [] e \in {"code", "inlineCode"} -> "CODE"
    [] OTHER -> "SPAN"

\* the parent element, or "" at the top of the modelled tree
ParentOf(e) ==
  CASE e = "span" -> "code"
    [] e = "code" -> "pre"
    [] OTHER -> ""

\* element.querySelector("code"), or "" for null
CodeIn(e) == IF e = "pre" THEN "code" ELSE ""

\* element.textContent: a pre's text is its own and its descendants'
TextContent(e) ==
  CASE e = "span" -> <<"x">>
    [] e = "code" -> <<"x", "y">>
    [] e = "pre" -> <<"#", "x", "y">>
    [] e = "inlineCode" -> <<"z">>
    [] OTHER -> <<"w">>

\* document.querySelectorAll("code, pre"): the elements given a listener
HasHandler(e) == TagName(e) \in {"CODE", "PRE"}

\* the text a listener copies for its element
TextToCopy(e) ==
  IF TagName(e) = "PRE"
    THEN IF CodeIn(e) # "" THEN TextContent(CodeIn(e)) ELSE TextContent(e)
    ELSE TextContent(e)

StopsPropagation_false == FALSE

\* e.stopPropagation() is the listener's first statement
StopsPropagation == TRUE

\* the listeners a click on e runs, innermost first: the event bubbles from
\* the target to its ancestors until a listener stops it
RECURSIVE Dispatch(_)
Dispatch(e) ==
  IF e = "" THEN <<>>
  ELSE IF HasHandler(e)
    THEN IF StopsPropagation THEN <<e>> ELSE <<e>> \o Dispatch(ParentOf(e))
    ELSE Dispatch(ParentOf(e))

\* classList.add("copied") and setTimeout(remove, 400) for click k on e
MarkCopied(e, k) ==
  /\ copied' = copied \cup {e}
  /\ timers' = Append(timers, [el |-> e, click |-> k])
  /\ setBy' = [setBy EXCEPT ![e] = k]

\* a click on target: each listener run stops the event, picks its text and
\* calls navigator.clipboard.writeText, then awaits the promise
Click(target) ==
  /\ clicks < MaxClicks
  /\ clicks' = clicks + 1
  /\ \E hs \in {Dispatch(target)} :
       /\ writes' = writes \o
            [i \in 1..Len(hs) |-> [click |-> clicks + 1, target |-> target,
                                   el |-> hs[i], text |-> TextToCopy(hs[i])]]
       /\ pending' = pending \cup
            {[click |-> clicks + 1, el |-> hs[i], text |-> TextToCopy(hs[i]),
              stage |-> "primary"] : i \in 1..Len(hs)}
  /\ UNCHANGED <<fallback, copied, timers, setBy, okClicks>>
  /\ UNCHANGED <<tokVars, pageVars, themeVars, socialVars, swapVars>>

\* a writeText promise is fulfilled: the text is on the clipboard
Resolve(p) ==
  /\ p \in pending
  /\ pending' = pending \ {p}
  /\ okClicks' = okClicks \cup {p.click}
  /\ MarkCopied(p.el, p.click)
  /\ UNCHANGED <<fallback, clicks, writes>>
  /\ UNCHANGED <<tokVars, pageVars, themeVars, socialVars, swapVars>>

\* the listener's writeText fails (rejected, or navigator.clipboard absent):
\* the catch clause runs fallbackCopy.  One body calls writeText again; the
\* other calls document.execCommand("copy"), which returns true, returns
\* false, or throws, and only a throw skips classList.add
RejectPrimary(p) ==
  /\ p \in pending
  /\ p.stage = "primary"
  /\ \/ /\ fallback = "writeText"
        /\ pending' = (pending \ {p}) \cup {[p EXCEPT !.stage = "fallback"]}
        /\ UNCHANGED <<copied, timers, setBy, okClicks>>
     \/ /\ fallback = "execCommand"
        /\ pending' = pending \ {p}
        /\ \E outcome \in {"true", "false", "throws"} :
             /\ okClicks' = IF outcome = "true" THEN okClicks \cup {p.click}
                                                ELSE okClicks
             /\ IF outcome = "throws"
                  THEN UNCHANGED <<copied, timers, setBy>>
                  ELSE MarkCopied(p.el, p.click)
  /\ UNCHANGED <<fallback, clicks, writes>>
  /\ UNCHANGED <<tokVars, pageVars, themeVars, socialVars, swapVars>>

\* the fallback's writeText is rejected too: console.error, nothing else
RejectFallback(p) ==
  /\ p \in pending
  /\ p.stage = "fallback"
  /\ pending' = pending \ {p}
  /\ UNCHANGED <<fallback, clicks, copied, timers, writes, setBy, okClicks>>
  /\ UNCHANGED <<tokVars, pageVars, themeVars, socialVars, swapVars>>

\* the oldest timeout fires (all delays are 400 ms): classList.remove
TimerFire ==
  /\ timers # <<>>
  /\ copied' = copied \ {Head(timers).el}
  /\ timers' = Tail(timers)
  /\ UNCHANGED <<fallback, clicks, pending, writes, setBy, okClicks>>
  /\ UNCHANGED <<tokVars, pageVars, themeVars, socialVars, swapVars>>

\* initializeCodeCopy has added the listeners; no click has happened
CopyStart ==
  /\ TokIdle
  /\ HighlightIdle
  /\ ThemeIdle
  /\ SocialIdle
  /\ SwapIdle
  /\ fallback \in Fallbacks
  /\ clicks = 0
  /\ copied = {}
  /\ timers = <<>>
  /\ pending = {}
  /\ writes = <<>>
  /\ setBy = [e \in Elements |-> 0]
  /\ okClicks = {}

CopyNext ==
  \/ \E target \in Elements : Click(target)
  \/ \E p \in pending : Resolve(p)
  \/ \E p \in pending : RejectPrimary(p)
  \/ \E p \in pending : RejectFallback(p)
  \/ TimerFire

CopySpec == CopyStart /\ [][CopyNext]_vars

(***************************************************************************)
(* Theme switching: applyTheme (theme.js) and updateTheme (page script)    *)
(***************************************************************************)

\* the data-theme values a link may carry
Themes == {"dark", "light", "sepia"}

\* mq.matches ? "dark" : "light"
Mode(matches) == IF matches THEN "dark" ELSE "light"

Disabled_knownOnly(theme, mode) == theme \in {"dark", "light"} /\ theme # mode

\* link.disabled = link.dataset.theme !== mode
Disabled(theme, mode) == theme # mode

\* applyTheme over every link[data-theme], with the query's value given
ApplyTheme(matches) ==
  linkDisabled' = [l \in Links |-> Disabled(linkTheme[l], Mode(matches))]

\* the script runs: it applies the theme and listens for "change"
ThemeInit ==
  /\ ~themeListening
  /\ themeListening' = TRUE
  /\ ApplyTheme(mqDark)
  /\ UNCHANGED <<linkTheme, mqDark>>
  /\ UNCHANGED <<tokVars, pageVars, copyVars, socialVars, swapVars>>

\* the user's colour scheme changes; the "change" listener, if added, runs
MediaChange ==
  /\ mqDark' = ~mqDark
  /\ IF themeListening THEN ApplyTheme(mqDark')
                       ELSE UNCHANGED linkDisabled
  /\ UNCHANGED <<linkTheme, themeListening>>
  /\ UNCHANGED <<tokVars, pageVars, copyVars, socialVars, swapVars>>

\* the document as parsed: any data-theme values, any disabled attributes
ThemeStart ==
  /\ TokIdle
  /\ HighlightIdle
  /\ CopyIdle
  /\ SocialIdle
  /\ SwapIdle
  /\ linkTheme \in [Links -> Themes]
  /\ linkDisabled \in [Links -> BOOLEAN]
  /\ mqDark \in BOOLEAN
  /\ themeListening = FALSE

ThemeNext ==
  \/ ThemeInit
  \/ MediaChange

ThemeSpec == ThemeStart /\ [][ThemeNext]_vars

(***************************************************************************)
(* Social links placement: handleSocialPositioning                         *)
(***************************************************************************)

\* container.getBoundingClientRect().left values, around the threshold
Lefts == {0, 64, 95, 96, 97, 128, 200}

\* window.innerWidth values, around the breakpoint
Widths == {320, 480, 767, 768, 769, 1024, 1280}

SidebarWidth == 4 * 16

Breakpoint == 768

HasSpace_atLeast(left) == left >= SidebarWidth + 32

HasSpace(left) == left > SidebarWidth + 32

\* updateSocialPosition with the geometry it reads
UpdateSocialPosition(left, width) ==
  IF HasSpace(left) /\ width > Breakpoint
    THEN /\ sidebarDisplay' = "flex"
         /\ bottomDisplay' = "none"
    ELSE /\ sidebarDisplay' = "none"
         /\ bottomDisplay' = "flex"

\* DOMContentLoaded: handleSocialPositioning updates once and listens
SocialReady ==
  /\ ~socialListening
  /\ socialListening' = TRUE
  /\ UpdateSocialPosition(containerLeft, innerWidth)
  /\ UNCHANGED <<containerLeft, innerWidth>>
  /\ UNCHANGED <<tokVars, pageVars, copyVars, themeVars, swapVars>>

\* the window is resized to a new geometry and "resize" is dispatched
Resize(left, width) ==
  /\ <<left, width>> # <<containerLeft, innerWidth>>
  /\ containerLeft' = left
  /\ innerWidth' = width
  /\ IF socialListening THEN UpdateSocialPosition(left, width)
                        ELSE UNCHANGED <<sidebarDisplay, bottomDisplay>>
  /\ UNCHANGED socialListening
  /\ UNCHANGED <<tokVars, pageVars, copyVars, themeVars, swapVars>>

\* the device is rotated: "orientationchange" is dispatched with the
\* geometry of the moment, which the rotation may or may not have changed yet
OrientationChange(left, width) ==
  /\ containerLeft' = left
  /\ innerWidth' = width
  /\ IF socialListening THEN UpdateSocialPosition(left, width)
                        ELSE UNCHANGED <<sidebarDisplay, bottomDisplay>>
  /\ UNCHANGED socialListening
  /\ UNCHANGED <<tokVars, pageVars, copyVars, themeVars, swapVars>>

\* the container moves with no event for the window (the page is scrolled
\* sideways, or its content is laid out again): no listener runs
Reflow(left) ==
  /\ left # containerLeft
  /\ containerLeft' = left
  /\ UNCHANGED <<innerWidth, sidebarDisplay, bottomDisplay, socialListening>>
  /\ UNCHANGED <<tokVars, pageVars, copyVars, themeVars, swapVars>>

SocialStart ==
  /\ TokIdle
  /\ HighlightIdle
  /\ CopyIdle
  /\ ThemeIdle
  /\ SwapIdle
  /\ containerLeft \in Lefts
  /\ innerWidth \in Widths
  /\ sidebarDisplay = ""
  /\ bottomDisplay = ""
  /\ socialListening = FALSE

SocialNext ==
  \/ SocialReady
  \/ \E left \in Lefts, width \in Widths : Resize(left, width)
  \/ \E left \in Lefts, width \in Widths : OrientationChange(left, width)
  \/ \E left \in Lefts : Reflow(left)

SocialSpec == SocialStart /\ [][SocialNext]_vars

(***************************************************************************)
(* The match-three post: SwapTiles and its reversal                        *)
(***************************************************************************)

MaxSwaps == 2
MaxDepth == 4

\* GridScan?.Invoke(): a match, no match, or null when nothing is subscribed
ScanResults == {"true", "false", "null"}

\* the arrangements of the items over the tiles
Grids == {g \in [Tiles -> Tiles] : \A t \in Tiles : \E u \in Tiles : g[u] = t}

\* the elided body: the two items move to each other's tiles
SwapItems(g, first, second) ==
  [g EXCEPT ![first] = g[second], ![second] = g[first]]

ReverseCall_reversible(first, second) ==
  [first |-> second, second |-> first, reversible |-> TRUE, pc |-> "body"]

\* SwapTiles(first: second, second: first, reversible: false)
ReverseCall(first, second) ==
  [first |-> second, second |-> first, reversible |-> FALSE, pc |-> "body"]

\* OnPointerUp: with no swap in progress, Swap(first, second) starts
\* SwapTiles with reversible left at its default, and the body swaps
Swap(first, second) ==
  /\ frames = <<>>
  /\ swapsDone < MaxSwaps
  /\ swapsDone' = swapsDone + 1
  /\ before' = grid
  /\ scans' = <<>>
  /\ reversals' = 0
  /\ frames' = <<[first |-> first, second |-> second, reversible |-> TRUE,
                  pc |-> "body"]>>
  /\ grid' = SwapItems(grid, first, second)
  /\ UNCHANGED <<tokVars, pageVars, copyVars, themeVars, socialVars>>

\* a reversible call scans the grid: a match is organized, anything else
\* starts the reversing call, whose body swaps the items back
Check(m) ==
  /\ frames # <<>>
  /\ Len(frames) < MaxDepth
  /\ frames[Len(frames)].pc = "body"
  /\ frames[Len(frames)].reversible
  /\ scans' = Append(scans, m)
  /\ IF m = "true"
       THEN /\ grid' \in Grids
            /\ frames' = [frames EXCEPT ![Len(frames)].pc = "end"]
            /\ UNCHANGED reversals
       ELSE /\ \E top \in {frames[Len(frames)]} :
                 /\ frames' = Append([frames EXCEPT ![Len(frames)].pc = "wait"],
                                     ReverseCall(top.first, top.second))
                 /\ grid' = SwapItems(grid, top.second, top.first)
            /\ reversals' = reversals + 1
  /\ UNCHANGED <<before, swapsDone>>
  /\ UNCHANGED <<tokVars, pageVars, copyVars, themeVars, socialVars>>

\* the innermost call ends: one that is not reversible skips the scan; the
\* call that waited on it resumes at its own end
Return ==
  /\ frames # <<>>
  /\ \/ frames[Len(frames)].pc = "end"
     \/ frames[Len(frames)].pc = "body" /\ ~frames[Len(frames)].reversible
  /\ frames' = [i \in 1..(Len(frames) - 1) |->
                  IF i = Len(frames) - 1
                    THEN [frames[i] EXCEPT !.pc = "end"] ELSE frames[i]]
  /\ UNCHANGED <<grid, scans, reversals, before, swapsDone>>
  /\ UNCHANGED <<tokVars, pageVars, copyVars, themeVars, socialVars>>

SwapStart ==
  /\ TokIdle
  /\ HighlightIdle
  /\ CopyIdle
  /\ ThemeIdle
  /\ SocialIdle
  /\ grid \in Grids
  /\ frames = <<>>
  /\ scans = <<>>
  /\ reversals = 0
  /\ before = grid
  /\ swapsDone = 0

SwapNext ==
  \/ \E first, second \in Tiles : Swap(first, second)
  \/ \E m \in ScanResults : Check(m)
  \/ Return

SwapSpec == SwapStart /\ [][SwapNext]_vars

----------------------------------------------------------------------------
(* Properties                                                              *)

IsDone == pc = "done"
SpanIx == 1..Len(spans)
\* the spans of one rule opened at nesting depth d
SpansOf(rule, d) == {i \in SpanIx : spans[i].rule = rule /\ spans[i].depth = d}

\* C1: over any sequence of initialization and refresh-hook runs no block is
\* passed to the engine more than once: a block is marked in the pass that
\* highlights it, a marked block is never highlighted or unmarked again, and
\* a pass that finds every block marked changes no block.
C1_HighlightedAtMostOnce ==
  [][/\ \A b \in Blocks : hlCount'[b] <= 1
     /\ \A b \in Blocks :
          hlCount'[b] # hlCount[b] => b \notin marked /\ b \in marked'
     /\ marked \subseteq marked'
     /\ (passes' # passes /\ blocks \subseteq marked)
          => (marked' = marked /\ hlCount' = hlCount)]_vars

\* a later pass has run over a block that an earlier pass highlighted
C1_Witness ==
  \E b \in skipped : hlCount[b] = 1 /\ b \in marked /\ passes >= 2

\* the } that matches the { at p when every brace after p is counted
RECURSIVE MatchingBraceFrom(_, _, _)
MatchingBraceFrom(s, p, d) ==
  IF p > Len(s) THEN 0
  ELSE IF s[p] = "{" THEN MatchingBraceFrom(s, p + 1, d + 1)
  ELSE IF s[p] = "}" THEN (IF d = 1 THEN p ELSE MatchingBraceFrom(s, p + 1, d - 1))
  ELSE MatchingBraceFrom(s, p + 1, d)
MatchingBrace(s, p) == MatchingBraceFrom(s, p + 1, 1)

\* no brace of s[p..q] lies in a string literal or a comment; st is "code", or
\* the quote of the open string, or the opener of the open comment
RECURSIVE NoHiddenBrace(_, _, _, _)
NoHiddenBrace(s, p, q, st) ==
  IF p > q THEN TRUE
  ELSE IF st = "code" THEN
    IF s[p] \in {"'", "\""} THEN NoHiddenBrace(s, p + 1, q, s[p])
    ELSE IF Lit(s, p, <<"/", "/">>) # 0 THEN NoHiddenBrace(s, p + 2, q, "//")
    ELSE IF Lit(s, p, <<"/", "*">>) # 0 THEN NoHiddenBrace(s, p + 2, q, "/*")
    ELSE NoHiddenBrace(s, p + 1, q, "code")
  ELSE IF s[p] \in {"{", "}"} THEN FALSE
  ELSE IF st = "//" THEN
    NoHiddenBrace(s, p + 1, q, IF s[p] \in LineTerminator THEN "code" ELSE "//")
  ELSE IF st = "/*" THEN
    IF Lit(s, p, <<"*", "/">>) # 0 THEN NoHiddenBrace(s, p + 2, q, "code")
    ELSE NoHiddenBrace(s, p + 1, q, "/*")
  ELSE IF s[p] = "\\" THEN
    Ch(s, p + 1) \notin {"{", "}"} /\ NoHiddenBrace(s, p + 2, q, st)
  ELSE NoHiddenBrace(s, p + 1, q, IF s[p] = st THEN "code" ELSE st)

\* the action block opened at p is balanced and hides no brace
WellBraced(s, p) ==
  MatchingBrace(s, p) # 0 /\ NoHiddenBrace(s, p + 1, MatchingBrace(s, p), "code")

\* C2: an action-block span whose braces are balanced, none of them inside a
\* string or a comment, ends exactly at the } matching its opening {, at any
\* nesting depth, and so contains every nested pair.
C2_ActionBlockSpansBalancedRegion ==
  IsDone =>
    \A i \in SpansOf("ACTION_CODE", 0) :
      WellBraced(input, spans[i].from)
        => spans[i].to = MatchingBrace(input, spans[i].from) + 1

\* a finished action block that holds braces nested three deep
C2_Witness ==
  /\ IsDone
  /\ \E i \in SpansOf("ACTION_CODE", 0) :
       /\ WellBraced(input, spans[i].from)
       /\ Ch(input, spans[i].from + 1) = "{"
       /\ Ch(input, spans[i].from + 2) = "{"
       /\ spans[i].to = MatchingBrace(input, spans[i].from) + 1

\* the first quote q at or after p that no backslash escape consumes (0: none)
RECURSIVE ClosingQuote(_, _, _)
ClosingQuote(s, p, q) ==
  IF p > Len(s) THEN 0
  ELSE IF s[p] = "\\" /\ p < Len(s) THEN ClosingQuote(s, p + 2, q)
  ELSE IF s[p] = q THEN p
  ELSE ClosingQuote(s, p + 1, q)

\* where a string opened at p with quote q ends: after its closing quote, or
\* at the end of the text
StringEnd(s, p, q) ==
  IF ClosingQuote(s, p + 1, q) = 0 THEN Len(s) + 1
  ELSE ClosingQuote(s, p + 1, q) + 1

\* C3: a single-quoted string span starts at its opening quote, extends
\* through every backslash-escaped character, escaped quotes included, and
\* ends at the first following single quote that no escape consumes.
C3_SingleQuotedStringSpan ==
  IsDone =>
    \A i \in SpansOf("STRING_1", 0) :
      /\ input[spans[i].from] = "'"
      /\ spans[i].to = StringEnd(input, spans[i].from, "'")

\* a closed single-quoted string with an escaped quote inside it
C3_Witness ==
  /\ IsDone
  /\ \E i \in SpansOf("STRING_1", 0) :
       /\ input[spans[i].to - 1] = "'"
       /\ \E x \in (spans[i].from + 1)..(spans[i].to - 3) :
            input[x] = "\\" /\ input[x + 1] = "'"
       /\ spans[i].to = StringEnd(input, spans[i].from, "'")

\* position x lies in a string, comment, character class or block span
Covered(x) ==
  \E i \in SpanIx :
    /\ spans[i].cls \in {"string", "comment", "section", "meta"}
    /\ spans[i].from <= x /\ x < spans[i].to

\* an identifier starts at p
IdentifierAt(s, p) == Ch(s, p) \in IdentStart /\ Ch(s, p - 1) \notin WordChar

\* the first position of the identifier that position x belongs to
WordStart(s, x) ==
  CHOOSE q \in 1..x :
    (\A k \in q..x : s[k] \in WordChar) /\ Ch(s, q - 1) \notin WordChar

\* C4: every identifier that begins with an uppercase letter, outside
\* strings, comments, ranges and blocks, is a token-reference span over its
\* whole length, whatever the case of its later characters.
C4_UppercaseIdentifierIsTokenReference ==
  IsDone =>
    \A p \in 1..Len(input) :
      (IdentifierAt(input, p) /\ input[p] \in Upper /\ ~Covered(p))
        => \E i \in SpansOf("TOKEN_NAME", 0) :
             /\ spans[i].from = p
             /\ spans[i].to = RunEnd(input, p, WordChar)

\* an identifier that begins with a lowercase letter stands at the start of
\* a line, outside strings, comments, ranges and blocks
RuleNameEligible(p) ==
  /\ IdentifierAt(input, p)
  /\ input[p] \in Lower
  /\ LineStart(input, p)
  /\ ~Covered(p)

\* the identifier at p is a rule-reference span over its whole length
RuleReferenceAt(p) ==
  \E i \in SpansOf("RULE_NAME", 0) :
    spans[i].from = p /\ spans[i].to = RunEnd(input, p, WordChar)

\* C5 as stated: every identifier that begins with a lowercase letter at the
\* start of a line is a rule-reference span over its whole length.
C5_LineStartIdentifierIsRuleReference ==
  IsDone => \A p \in 1..Len(input) : RuleNameEligible(p) => RuleReferenceAt(p)

\* C5, amended: every identifier that begins with a lowercase letter at the
\* start of a line is a rule-reference span over its whole length, except
\* where a rule declared before RULE_NAME matches at that position: the
\* grammar-type keywords (GRAMMAR_TYPE) and `options {` (OPTION).
C5_LineStartIdentifierIsRuleReferenceUnlessEarlierRule ==
  IsDone =>
    \A p \in 1..Len(input) :
      (/\ RuleNameEligible(p)
       /\ GRAMMAR_TYPE_begin(input, p) = 0
       /\ OPTION_begin(input, p) = 0)
        => RuleReferenceAt(p)

\* a mixed-case identifier at the start of a later line is one rule reference
C5_Witness ==
  /\ IsDone
  /\ \E p \in 2..Len(input) :
       /\ RuleNameEligible(p)
       /\ GRAMMAR_TYPE_begin(input, p) = 0
       /\ Ch(input, p + 1) \in Upper
       /\ RuleReferenceAt(p)

\* C6: rule and token references are told apart by the case of the
\* identifier's first character alone: no part of an identifier that begins
\* in lowercase is a token reference, and no part of one that begins in
\* uppercase is a rule reference.
C6_ReferenceKindFollowsFirstCharacter ==
  IsDone =>
    \A i \in SpanIx :
      /\ spans[i].rule = "TOKEN_NAME"
           => input[WordStart(input, spans[i].from)] \notin Lower
      /\ spans[i].rule = "RULE_NAME"
           => input[WordStart(input, spans[i].from)] \notin Upper

\* the first ] at or after p that no /\\./ escape consumes (0: none)
RECURSIVE ClosingBracket(_, _)
ClosingBracket(s, p) ==
  IF p > Len(s) THEN 0
  ELSE IF s[p] = "\\" /\ p < Len(s) /\ s[p + 1] \notin LineTerminator
    THEN ClosingBracket(s, p + 2)
  ELSE IF s[p] = "]" THEN p
  ELSE ClosingBracket(s, p + 1)

\* the positions from p on, up to the closing ], that a backslash escapes
RECURSIVE EscapedIn(_, _)
EscapedIn(s, p) ==
  IF p > Len(s) THEN {}
  ELSE IF s[p] = "\\" /\ p < Len(s) /\ s[p + 1] \notin LineTerminator
    THEN {p + 1} \cup EscapedIn(s, p + 2)
  ELSE IF s[p] = "]" THEN {}
  ELSE EscapedIn(s, p + 1)

\* C7: a character class runs from its [ to the next ] that no backslash
\* escapes; inside it every hyphen that is not escaped is an operator span
\* nested in the range, and an escaped character is in no operator span and
\* does not close the range.
C7_RangeHyphensAndEscapes ==
  IsDone =>
    \A r \in SpansOf("RANGE", 0) :
      LET from == spans[r].from
          to == spans[r].to
          esc == EscapedIn(input, from + 1)
          close == ClosingBracket(input, from + 1)
      IN /\ to = IF close = 0 THEN Len(input) + 1 ELSE close + 1
         /\ \A x \in (from + 1)..(to - 1) :
              /\ (input[x] = "-" /\ x \notin esc)
                   => \E j \in SpansOf("RANGE_HYPHEN", 1) :
                        /\ spans[j].cls = "operator"
                        /\ spans[j].from = x /\ spans[j].to = x + 1
              /\ x \in esc
                   => ~\E j \in SpanIx :
                        /\ spans[j].cls = "operator"
                        /\ spans[j].from <= x /\ x < spans[j].to

\* a closed range with an unescaped hyphen and, after it, an escaped one
C7_Witness ==
  /\ IsDone
  /\ \E r \in SpansOf("RANGE", 0) :
       /\ input[spans[r].to - 1] = "]"
       /\ \E x \in (spans[r].from + 1)..(spans[r].to - 2) :
            /\ input[x] = "-"
            /\ x \in EscapedIn(input, spans[r].from + 1)
       /\ \E j \in SpansOf("RANGE_HYPHEN", 1) :
            spans[r].from < spans[j].from /\ spans[j].to < spans[r].to

\* the top-level rules whose begin matches at p, by place in the rule list
RulesAt(p) ==
  {k \in 1..Len(antlrLanguage.contains) :
     Match(ModeOf(antlrLanguage.contains[k]).begin, input, p) # 0}
EarliestRuleAt(p) == antlrLanguage.contains[Min(RulesAt(p))]

\* position p lies after the first character of a top-level rule's span
InsideTopLevelSpan(p) ==
  \E i \in SpanIx :
    /\ spans[i].depth = 0 /\ spans[i].rule # "KEYWORDS"
    /\ spans[i].from < p /\ p < spans[i].to

\* C8: wherever top-level rules match at a position of top-level text, the
\* span that starts there is the one of the rule declared earliest among
\* them, and every top-level span was opened by the earliest rule matching
\* at its start.
C8_EarliestDeclaredRuleWins ==
  IsDone =>
    /\ \A p \in 1..Len(input) :
         (RulesAt(p) # {} /\ ~InsideTopLevelSpan(p))
           => \E i \in SpanIx :
                /\ spans[i].depth = 0 /\ spans[i].from = p
                /\ spans[i].rule = EarliestRuleAt(p)
    /\ \A i \in SpanIx :
         (spans[i].depth = 0 /\ spans[i].rule # "KEYWORDS")
           => spans[i].rule = EarliestRuleAt(spans[i].from)

\* `grammar` at a line start is a keyword though RULE_NAME matches there too,
\* and `[` opens a range though SPECIAL_CHARS matches there too
C8_Witness ==
  /\ IsDone
  /\ \E i \in SpansOf("GRAMMAR_TYPE", 0) :
       Cardinality(RulesAt(spans[i].from)) >= 2
  /\ \E i \in SpansOf("RANGE", 0) :
       Cardinality(RulesAt(spans[i].from)) >= 2

\* the class and the text of each emitted span, in document order
Classified ==
  [i \in SpanIx |->
     <<spans[i].cls, SubSeq(input, spans[i].from, spans[i].to - 1)>>]

\* C9: `grammar Foo; fragment X: 'a'..'z';` tokenizes as keyword grammar,
\* token-name Foo, punctuation ;, keyword fragment, token-name X,
\* punctuation :, string 'a', operator .., string 'z', punctuation ;.
C9_ScenarioSpans ==
  (IsDone /\ input = Scenario) =>
    Classified =
      << <<"keyword", W_grammar>>,
         <<"title.class", <<"F", "o", "o">>>>,
         <<"punctuation", <<";">>>>,
         <<"keyword", <<"f", "r", "a", "g", "m", "e", "n", "t">>>>,
         <<"title.class", <<"X">>>>,
         <<"punctuation", <<":">>>>,
         <<"string", <<"'", "a", "'">>>>,
         <<"operator", <<".", ".">>>>,
         <<"string", <<"'", "z", "'">>>>,
         <<"punctuation", <<";">>>> >>

StringRules == {"STRING_1", "STRING_2"}

\* C10: a string span is closed only by a quote of the style that opened it
\* which no escape consumes, and nothing opens a span inside a string: a quote
\* of the other style neither ends it nor starts a nested string.
C10_QuoteStylesIndependent ==
  \A i \in SpanIx :
    spans[i].rule \in StringRules =>
      /\ (pc = "scan" /\ spans[i].to # 0)
           => spans[i].to
                = ClosingQuote(input, spans[i].from + 1, input[spans[i].from]) + 1
      /\ \A j \in SpanIx :
           ~(/\ spans[j].from > spans[i].from
             /\ (spans[i].to = 0 \/ spans[j].from < spans[i].to))

\* a closed string of each style that holds a quote of the other style
C10_Witness ==
  /\ IsDone
  /\ \E i \in SpansOf("STRING_1", 0) :
       /\ spans[i].to = spans[i].from + 3
       /\ input[spans[i].from + 1] = "\"" /\ input[spans[i].from + 2] = "'"
  /\ \E i \in SpansOf("STRING_2", 0) :
       /\ spans[i].to = spans[i].from + 3
       /\ input[spans[i].from + 1] = "'" /\ input[spans[i].from + 2] = "\""

\* the step in which initializeHighlighting runs: the script body outside the
\* "loading" state, or the DOMContentLoaded listener it registered
InitStep ==
  \/ ~scriptRun /\ scriptRun' /\ readyState # "loading"
  \/ listening /\ ~listening'

\* C11: the grammar is registered before the first call that highlights a
\* block: no block is highlighted and marked while the grammar is still
\* unregistered, a refresh that arrives before initialization included.
C11_RegistrationPrecedesHighlighting ==
  \A b \in Blocks : (hlCount[b] > 0 \/ b \in marked) => b \notin unregHl

\* C12: across one page load the grammar is registered at most once, whatever
\* the readiness state when the script runs and however often the refresh
\* hook is invoked: the step that runs initialization registers it, exactly
\* once, when the engine is present, and no other step registers anything.
C12_RegisteredAtMostOnce ==
  [][/\ registered' <= 1
     /\ (InitStep /\ hljsLoaded) => (registered = 0 /\ registered' = 1)
     /\ ~(InitStep /\ hljsLoaded) => registered' = registered]_vars

\* the grammar is registered once and the refresh hook has run several passes,
\* before and after the load event
C12_Witness ==
  /\ registered = 1
  /\ readyState = "complete"
  /\ passes >= 3
  /\ skipped # {}

RECURSIVE ClosingBraceFrom(_, _, _, _)
ClosingBraceFrom(s, p, d, st) ==
  IF p > Len(s) THEN 0
  ELSE IF st = "code" THEN
    IF s[p] \in {"'", "\""} THEN ClosingBraceFrom(s, p + 1, d, s[p])
    ELSE IF Lit(s, p, <<"/", "/">>) # 0 THEN ClosingBraceFrom(s, p + 2, d, "//")
    ELSE IF Lit(s, p, <<"/", "*">>) # 0 THEN ClosingBraceFrom(s, p + 2, d, "/*")
    ELSE IF s[p] = "{" THEN ClosingBraceFrom(s, p + 1, d + 1, "code")
    ELSE IF s[p] = "}" THEN
      (IF d = 1 THEN p ELSE ClosingBraceFrom(s, p + 1, d - 1, "code"))
    ELSE ClosingBraceFrom(s, p + 1, d, "code")
  ELSE IF st = "//" THEN
    ClosingBraceFrom(s, p + 1, d,
                     IF s[p] \in LineTerminator THEN "code" ELSE "//")
  ELSE IF st = "/*" THEN
    IF Lit(s, p, <<"*", "/">>) # 0 THEN ClosingBraceFrom(s, p + 2, d, "code")
    ELSE ClosingBraceFrom(s, p + 1, d, "/*")
  ELSE IF s[p] = "\\" THEN ClosingBraceFrom(s, p + 2, d, st)
  ELSE ClosingBraceFrom(s, p + 1, d, IF s[p] = st THEN "code" ELSE st)
ClosingBrace(s, p) == ClosingBraceFrom(s, p + 1, 1, "code")

\* C14: in an action block, at any nesting depth, a } inside a string literal
\* or a comment closes no brace level: the block ends at the } that matches
\* its opening { when such braces are not counted, and that } is what closes
\* it.
C14_HiddenBraceClosesNothing ==
  IsDone =>
    \A i \in SpansOf("ACTION_CODE", 0) :
      ClosingBrace(input, spans[i].from) # 0
        => /\ spans[i].to = ClosingBrace(input, spans[i].from) + 1
           /\ spans[i].to = Len(input) + 1 => stack = <<>>

\* a listed keyword stands at p as a whole word
KeywordAt(s, p) ==
  /\ IdentifierAt(s, p)
  /\ SubSeq(s, p, RunEnd(s, p, WordChar) - 1) \in KeywordList

\* C15: every whole-word occurrence of a listed keyword in top-level text,
\* outside strings, comments, ranges and blocks, is a keyword span over the
\* word, wherever on the line it stands, the start of a line included.
C15_KeywordClassifiedAnywhereOnLine ==
  IsDone =>
    \A p \in 1..Len(input) :
      (KeywordAt(input, p) /\ ~Covered(p))
        => \E i \in SpanIx :
             /\ spans[i].cls = "keyword"
             /\ spans[i].from = p
             /\ spans[i].to = RunEnd(input, p, WordChar)

\* the action block opened at p is never closed: no } follows its {, or its
\* braces, none of them inside a string or a comment, leave it open
NeverClosed(s, p) ==
  \/ \A x \in (p + 1)..Len(s) : s[x] # "}"
  \/ MatchingBrace(s, p) = 0 /\ NoHiddenBrace(s, p + 1, Len(s), "code")

C20_TerminatesAndReproducesInput ==
  /\ <>IsDone
  /\ [](/\ emitted \o modeBuffer = SubSeq(input, 1, index - 1)
        /\ IsDone => emitted = input)

\* a finished text with a header tag that left its { to an action block, a
\* string and an escape in it
C20_Witness ==
  /\ IsDone
  /\ emitted = input
  /\ SpansOf("HEADER", 0) # {}
  /\ SpansOf("ACTION_CODE", 0) # {}
  /\ SpansOf("STRING_1", 1) # {}
  /\ \E x \in 1..Len(input) : input[x] = "\\"

\* the result of the k-th earlier call was for the text now highlighted
SameText(k) == earlier[k].input = input

\* C17: the classification of a block depends on its own text alone: after
\* any other blocks, blocks that end inside an open string, comment or action
\* block included, the engine yields the span sequence, and the text, that it
\* yielded for the same text as the first block of the page.
C17_BlockClassifiedByOwnTextAlone ==
  IsDone =>
    \A k \in 1..Len(earlier) :
      SameText(k) => (spans = earlier[k].spans /\ emitted = earlier[k].emitted)

\* a text highlighted first, then again right after a block that ended
\* inside an open mode, with the same non-empty result
C17_Witness ==
  /\ IsDone
  /\ Len(earlier) = 2
  /\ SameText(1)
  /\ earlier[2].input \in UnterminatedTexts
  /\ earlier[2].input # input
  /\ spans # <<>>
  /\ spans = earlier[1].spans

\* C18: relevance values never decide which rule classifies a span: a text
\* highlighted under grammars that differ in the relevance of RULE_NAME and
\* TOKEN_NAME alone gets the same span sequence under each of them.
C18_RelevanceDecidesNoSpan ==
  \A k \in 1..Len(earlier) :
    (IsDone /\ SameText(k) /\ earlier[k].weights # weights)
      => spans = earlier[k].spans

\* one text highlighted under two sets of relevance values, with different
\* scores; in it `grammar` is a keyword where the weightier RULE_NAME matches
\* too, and a rule or token reference follows
C18_Witness ==
  /\ IsDone
  /\ \E k \in 1..Len(earlier) :
       /\ SameText(k)
       /\ earlier[k].weights # weights
       /\ earlier[k].relevance # relevance
       /\ spans = earlier[k].spans
  /\ \E i \in SpansOf("GRAMMAR_TYPE", 0) :
       /\ RULE_NAME_begin(input, spans[i].from) # 0
       /\ Relevance("RULE_NAME") > Relevance("GRAMMAR_TYPE")
  /\ SpansOf("RULE_NAME", 0) \cup SpansOf("TOKEN_NAME", 0) # {}

\* the first { at or after p (0: none)
RECURSIVE FirstBrace(_, _)
FirstBrace(s, p) ==
  IF p > Len(s) THEN 0 ELSE IF s[p] = "{" THEN p ELSE FirstBrace(s, p + 1)

\* a header tag starts at p in top-level text
HeaderTagAt(p) == HEADER_begin(input, p) # 0 /\ ~InsideTopLevelSpan(p)

\* C19: for a header tag at top level that a { follows, the header span runs
\* from the tag up to but excluding the first such {, and that { opens an
\* action-block span at top level.
C19_HeaderLeavesBraceToActionBlock ==
  IsDone =>
    \A p \in 1..Len(input) :
      (HeaderTagAt(p) /\ FirstBrace(input, p) # 0)
        => /\ \E i \in SpansOf("HEADER", 0) :
                spans[i].from = p /\ spans[i].to = FirstBrace(input, p)
           /\ \E j \in SpansOf("ACTION_CODE", 0) :
                spans[j].from = FirstBrace(input, p)

\* a header tag, text after it, and a body that its own } closes
C19_Witness ==
  /\ IsDone
  /\ \E p \in 1..Len(input) :
       /\ HeaderTagAt(p)
       /\ FirstBrace(input, p) > HEADER_begin(input, p)
       /\ \E i \in SpansOf("HEADER", 0) :
            spans[i].from = p /\ spans[i].to = FirstBrace(input, p)
       /\ \E j \in SpansOf("ACTION_CODE", 0) :
            /\ spans[j].from = FirstBrace(input, p)
            /\ spans[j].to <= Len(input)
            /\ input[spans[j].to - 1] = "}"

\* C21: window.refreshHighlighting invoked while the highlighting engine is
\* not loaded raises no error and marks no block: no handler ever ends with
\* an uncaught error, and no block is marked before the engine is loaded.
C21_RefreshWithoutEngineIsSilent ==
  /\ ~thrown
  /\ ~hljsLoaded => marked = {}

\* C22: under any interleaving of clicks and timer callbacks, a timer
\* started by an earlier click never removes the class "copied" that a later
\* click's copy has set on the same element.
C22_TimerRemovesOnlyItsOwnClass ==
  [][(/\ timers # <<>>
      /\ timers' = Tail(timers)
      /\ Head(timers).el \in copied
      /\ Head(timers).el \notin copied')
     => Head(timers).click = setBy[Head(timers).el]]_vars

\* C23: the class "copied" is added to an element only by a click whose copy
\* has succeeded; when the clipboard write and the fallback both fail the
\* class is not added.
C23_CopiedOnlyAfterSuccess ==
  \A e \in Elements : setBy[e] # 0 => setBy[e] \in okClicks

\* the innermost element with a listener at or above e
RECURSIVE InnermostHandler(_)
InnermostHandler(e) ==
  IF e = "" \/ HasHandler(e) THEN e ELSE InnermostHandler(ParentOf(e))

\* C25: each click issues exactly one primary clipboard write, made by the
\* innermost clicked code or pre element; a click inside a code nested in a
\* pre copies the code's text and does not run the pre's listener.
C25_OneWritePerClick ==
  /\ Len(writes) = clicks
  /\ \A i \in 1..Len(writes) :
       /\ writes[i].click = i
       /\ writes[i].el = InnermostHandler(writes[i].target)
       /\ writes[i].target \in {"code", "span"} =>
            /\ writes[i].el = "code"
            /\ writes[i].text = TextContent("code")
       /\ writes[i].el \in {"inlineCode", "barePre"} =>
            writes[i].text = TextContent(writes[i].el)

C25_Witness ==
  /\ clicks >= 2
  /\ \E i, j \in 1..Len(writes) :
       /\ writes[i].target = "span"
       /\ writes[j].target = "pre"
       /\ writes[j].text = TextContent("code")

\* C24: once the theme script has run, and after every change of the
\* prefers-color-scheme query, each link with data-theme is enabled exactly
\* when its data-theme is the current mode; a dark and a light stylesheet are
\* never enabled together and a link with another value is disabled.
C24_LinkEnabledIffCurrentMode ==
  themeListening =>
    /\ \A l \in Links :
         ~linkDisabled[l] <=>
           linkTheme[l] = (IF mqDark THEN "dark" ELSE "light")
    /\ \A l, m \in Links :
         ~(/\ linkTheme[l] = "dark" /\ ~linkDisabled[l]
           /\ linkTheme[m] = "light" /\ ~linkDisabled[m])
    /\ \A l \in Links :
         linkTheme[l] \notin {"dark", "light"} => linkDisabled[l]

C24_Witness ==
  /\ themeListening
  /\ mqDark
  /\ \E l, m, n \in Links :
       /\ linkTheme[l] = "dark" /\ ~linkDisabled[l]
       /\ linkTheme[m] = "light" /\ linkDisabled[m]
       /\ linkTheme[n] = "sepia" /\ linkDisabled[n]

\* one of the two containers is shown and the other hidden
ExactlyOneShown ==
  \/ sidebarDisplay = "flex" /\ bottomDisplay = "none"
  \/ sidebarDisplay = "none" /\ bottomDisplay = "flex"

\* a step in which updateSocialPosition runs
PositioningStep ==
  \/ SocialReady
  \/ /\ socialListening
     /\ \E left \in Lefts, width \in Widths :
          Resize(left, width) \/ OrientationChange(left, width)

\* C26: once the positioning handler has run exactly one of the sidebar and
\* bottom containers is displayed (flex) and the other hidden (none), and
\* after the handler's run and every later resize or orientationchange the
\* sidebar is the displayed one exactly when the container's left offset
\* exceeds 96 and the window's inner width exceeds 768.
C26_ExactlyOneSocialContainer ==
  /\ [](socialListening => ExactlyOneShown)
  /\ [][PositioningStep =>
          (sidebarDisplay' = "flex" <=>
             (containerLeft' > 96 /\ innerWidth' > 768))]_vars

C26_Witness ==
  /\ socialListening
  /\ containerLeft = 97
  /\ innerWidth = 769
  /\ sidebarDisplay = "flex"
  /\ bottomDisplay = "none"

\* C27: a user's swap that produces no match is reversed exactly once and
\* both items are back on their original tiles; the reversing swap scans
\* nothing and reverses nothing, so SwapTiles never nests deeper than two.
C27_NoMatchReversedOnce ==
  /\ Len(frames) <= 2
  /\ Len(scans) <= 1
  /\ reversals <= 1
  /\ Len(frames) = 2 => ~frames[2].reversible
  /\ (scans # <<>> /\ scans[1] # "true") => reversals = 1
  /\ reversals = 1 => (scans # <<>> /\ scans[1] # "true" /\ grid = before)

C27_Witness ==
  /\ swapsDone = 2
  /\ Len(frames) = 2
  /\ frames[1].first # frames[1].second
  /\ frames[2].first = frames[1].second
  /\ frames[2].second = frames[1].first
  /\ scans = <<"false">>
  /\ reversals = 1
  /\ grid = before

====
